---- MODULE Spec2Model ----
(***************************************************************************)
(* IP-based attendance server: the POST /api/attendance/mark handler of    *)
(* server.js, the JSON database module (db.js), the admin registry         *)
(* endpoint and the admin report, as a state machine, with the two files   *)
(* (db.json, attendance.xlsx) as the environment can change them.          *)
(* A handler is split where the source                                     *)
(* awaits (workbook.xlsx.readFile, workbook.xlsx.writeFile): everything    *)
(* between two awaits runs without interruption on Node's single thread.   *)
(*                                                                         *)
(* JavaScript strings that the code takes apart (addresses, names, ids)    *)
(* are sequences of one-character strings; null is the tuple Null.         *)
(***************************************************************************)
EXTENDS Integers, Sequences, FiniteSets, TLC

----------------------------------------------------------------------------
(* Bounds of the model *)

NumHandlers == 2        \* handler activations: concurrent submissions
MaxSubmissions == 2     \* submissions of the sequential specification
MaxClock == 2           \* last clock tick
TicksPerDay == 2        \* clock ticks in one UTC calendar day
MaxDecisions == 2       \* submissions of the decision specification
MaxReportWrites == 2    \* submissions of the report specification
MaxStoreWrites == 2     \* submissions of the store specification
MaxSheetWrites == 2     \* submissions of the sheet specification
MaxRegistryWrites == 2  \* submissions of the registry specification
MaxCleanWrites == 2     \* submissions of the specification without failures
MaxAuthWrites == 2      \* submissions of the authorisation specification
MaxPeerWrites == 1      \* submissions of the peer-address specification

Handlers == 1..NumHandlers

----------------------------------------------------------------------------
(* Sample strings *)

Empty == << >>
Null == <<"null">>

IpOffice == <<"8", ".", "8", ".", "8", ".", "8">>
IpOther == <<"9", ".", "9", ".", "9", ".", "9">>
IpHome == <<"1", "0", ".", "0", ".", "0", ".", "5">>
IpMappedHome == <<":", ":", "f", "f", "f", "f", ":">> \o IpHome
IpChain == IpOffice \o <<",", " ">> \o IpHome

U001 == <<"U", "1">>
U002 == <<"U", "2">>
Ada == <<"A", "d", "a">>

\* an id or a name that is one blank, and a name with a trailing blank
Blank == <<" ">>
AdaPadded == Ada \o <<" ">>

Secret == <<"s">>
Wrong == <<"w">>
Tokens == {Secret, Wrong}

\* Inputs of the concurrent specification: two identities, an office address sent
\* in the forwarding header or a private peer address, one registry address
StudentIds == {Empty, U001, U002}
StudentNames == {Ada}
ForwardedHeaders == {Empty, IpOffice}
PeerAddresses == {IpMappedHome}
RegistryIds == {U001}
RegistryIps == {IpOffice}
DefaultIps == {Empty}

\* Inputs of the sequential specification: the same, with a process default
SeqDefaultIps == {Empty, IpOffice}

\* Inputs of the decision specification: every kind of address and registry state
DecisionStudentIds == {Empty, U001}
DecisionStudentNames == {Empty, Ada}
DecisionForwardedHeaders == {Empty, IpOffice, IpChain}
DecisionPeerAddresses == {Empty, IpMappedHome, IpOther}
DecisionRegistryIds == {Empty, U001}
DecisionRegistryIps == {Empty, IpOffice, IpHome}
DecisionDefaultIps == {Empty, IpOther}

\* Inputs of the report specification: a process default that makes the
\* office address Present, and the ways attendance.xlsx is lost
ReportStudentIds == {U001}
ReportDefaultIps == {IpOffice}
XlsxFaults == {"missing", "corrupt", "nosheet"}

\* Inputs of the sheet specification: ids and names with blanks
SheetStudentIds == {U001, Blank}
SheetStudentNames == {Ada, AdaPadded, Blank}
SheetFaults == {"missing", "nosheet"}

\* Inputs of the authorisation specification: no token sent, the right one, a
\* wrong one, against a process with or without an admin token
AuthTokens == {Empty, Secret, Wrong}
AuthAdminTokens == {Secret, Empty}

\* Inputs of the registry specification: two identities, two addresses
LastWriteIds == {U001, U002}
LastWriteIps == {IpOffice, IpHome}

\* Inputs of the store specification
StoreStudentIds == {U001}

----------------------------------------------------------------------------
(* String primitives of JavaScript used by the code *)

StartsWith(s, p) ==
  /\ Len(s) >= Len(p)
  /\ SubSeq(s, 1, Len(p)) = p

Includes(s, ch) == \E i \in 1..Len(s) : s[i] = ch

\* s.split(',')[0]
SplitFirst(s) ==
  IF Includes(s, ",")
    THEN SubSeq(s, 1, (CHOOSE i \in 1..Len(s) :
                         /\ s[i] = ","
                         /\ \A j \in 1..(i - 1) : s[j] # ",") - 1)
    ELSE s

RECURSIVE TrimLeft(_)
TrimLeft(s) ==
  IF s # Empty /\ Head(s) = " " THEN TrimLeft(Tail(s)) ELSE s

RECURSIVE TrimRight(_)
TrimRight(s) ==
  IF s # Empty /\ s[Len(s)] = " " THEN TrimRight(SubSeq(s, 1, Len(s) - 1)) ELSE s

Trim(s) == TrimRight(TrimLeft(s))

Digits == <<"0", "1", "2", "3", "4", "5", "6", "7", "8", "9">>

\* the decimal digits of a natural number, without leading zeros
RECURSIVE ToDigits(_)
ToDigits(n) ==
  IF n < 10 THEN <<Digits[n + 1]>> ELSE ToDigits(n \div 10) \o <<Digits[(n % 10) + 1]>>

\* the textual form of an IPv4 address, as net.Socket.remoteAddress gives it
Dotted(a, b, c, d) ==
  ToDigits(a) \o <<".">> \o ToDigits(b) \o <<".">> \o ToDigits(c) \o <<".">> \o ToDigits(d)

Ipv6Prefix == <<":", ":", "f", "f", "f", "f", ":">>
Ipv6Loopback == <<":", ":", "1">>
Ipv4Loopback == <<"1", "2", "7", ".", "0", ".", "0", ".", "1">>

----------------------------------------------------------------------------
(* server.js: extractClientIp, isPrivateIp, possibleProxy *)


\* the first entry of a chain is taken as it is, the trim() forgotten
extractClientIp_NoTrim(xff, socketAddr, connAddr) ==
  LET ip1 == xff
      ip2 == IF ip1 = Empty /\ socketAddr # Empty THEN socketAddr ELSE ip1
      ip3 == IF ip2 = Empty /\ connAddr # Empty THEN connAddr ELSE ip2
      ip4 == IF ip3 # Empty /\ Includes(ip3, ",") THEN SplitFirst(ip3) ELSE ip3
      ip5 == IF ip4 # Empty /\ StartsWith(ip4, Ipv6Prefix)
               THEN SubSeq(ip4, Len(Ipv6Prefix) + 1, Len(ip4))
               ELSE ip4
      ip6 == IF ip5 = Ipv6Loopback THEN Ipv4Loopback ELSE ip5
  IN ip6


\* the peer address of the socket is preferred to the forwarding header
extractClientIp_PeerFirst(xff, socketAddr, connAddr) ==
  LET ip1 == socketAddr
      ip2 == IF ip1 = Empty /\ connAddr # Empty THEN connAddr ELSE ip1
      ip3 == IF ip2 = Empty /\ xff # Empty THEN xff ELSE ip2
      ip4 == IF ip3 # Empty /\ Includes(ip3, ",") THEN Trim(SplitFirst(ip3)) ELSE ip3
      ip5 == IF ip4 # Empty /\ StartsWith(ip4, Ipv6Prefix)
               THEN SubSeq(ip4, Len(Ipv6Prefix) + 1, Len(ip4))
               ELSE ip4
      ip6 == IF ip5 = Ipv6Loopback THEN Ipv4Loopback ELSE ip5
  IN ip6

extractClientIp(xff, socketAddr, connAddr) ==
  LET ip1 == xff
      ip2 == IF ip1 = Empty /\ socketAddr # Empty THEN socketAddr ELSE ip1
      ip3 == IF ip2 = Empty /\ connAddr # Empty THEN connAddr ELSE ip2
      ip4 == IF ip3 # Empty /\ Includes(ip3, ",") THEN Trim(SplitFirst(ip3)) ELSE ip3
      ip5 == IF ip4 # Empty /\ StartsWith(ip4, Ipv6Prefix)
               THEN SubSeq(ip4, Len(Ipv6Prefix) + 1, Len(ip4))
               ELSE ip4
      ip6 == IF ip5 = Ipv6Loopback THEN Ipv4Loopback ELSE ip5
  IN ip6

PrivatePrefixes ==
  {<<"1", "0", ".">>, <<"1", "9", "2", ".", "1", "6", "8", ".">>}
  \cup {<<"1", "7", "2", ".">> \o d \o <<".">> :
          d \in {<<"1", "6">>, <<"1", "7">>, <<"1", "8">>, <<"1", "9">>,
                 <<"2", "0">>, <<"2", "1">>, <<"2", "2">>, <<"2", "3">>,
                 <<"2", "4">>, <<"2", "5">>, <<"2", "6">>, <<"2", "7">>,
                 <<"2", "8">>, <<"2", "9">>, <<"3", "0">>, <<"3", "1">>}}

Localhost == <<"l", "o", "c", "a", "l", "h", "o", "s", "t">>


\* the comparison with '127.0.0.1' is left out
isPrivateIp_NoLoopback(ip) ==
  IF ip = Empty THEN FALSE
  ELSE \/ \E p \in PrivatePrefixes : StartsWith(ip, p)
       \/ ip = Localhost

isPrivateIp(ip) ==
  IF ip = Empty THEN FALSE
  ELSE \/ \E p \in PrivatePrefixes : StartsWith(ip, p)
       \/ ip = Ipv4Loopback
       \/ ip = Localhost

\* raw && raw.split(',').length > 1 : the empty string itself when the header is absent
possibleProxy(xff) ==
  IF xff = Empty THEN "" ELSE IF Includes(xff, ",") THEN "true" ELSE "false"

\* Inputs of the classifier specification: forwarding headers as the HTTP
\* parser delivers them (no blank at either end), with one entry, with chains
\* whose entries have blanks around them, an empty first entry or an empty
\* last one, and peer addresses around the borders of the private blocks
ClassifyFirstOctets == {9, 10, 11, 100, 127, 171, 172, 173, 192, 193}
ClassifySecondOctets == {0, 15, 16, 31, 32, 160, 167, 168, 169}
ClassifyLastOctets == {1, 5}
ClassifyForwardedHeaders ==
  {Empty, IpOffice, IpChain, IpMappedHome, Ipv6Loopback,
   IpOffice \o <<" ", ",", " ">> \o IpHome,
   IpMappedHome \o <<" ", ",">> \o IpOffice,
   Ipv6Loopback \o <<",", " ">> \o IpOffice,
   <<",">> \o IpOffice,
   IpOffice \o <<",">>}
ClassifyPeerAddresses ==
  {Dotted(a, b, 0, d) : a \in ClassifyFirstOctets, b \in ClassifySecondOctets,
                        d \in ClassifyLastOctets}
  \cup {Empty, Localhost, Ipv6Loopback, IpMappedHome, Ipv6Prefix \o Ipv6Loopback}

----------------------------------------------------------------------------
(* State *)

VARIABLES
  now,            \* the clock: ticks since the start of day 0 (UTC)
  ALLOWED_IP,     \* process-wide default expected address, Empty when unset
  ADMIN_TOKEN,    \* admin token of the process, Empty when unset
  dbFile,         \* db.json: "missing", "ok", or "unreadable" (its read or parse throws)
  dbUsers,        \* db.json users: function from the student ids that have an entry
  dbAttendance,   \* db.json attendance: sequence of records
  xlsFile,        \* attendance.xlsx: "missing", "ok", "corrupt" or "nosheet"
  xlsRows,        \* rows of the Attendance sheet, header first
  pc,             \* per handler: position in POST /api/attendance/mark
  loc,            \* per handler: local variables of the handler
  wb,             \* per handler: rows of the in-memory workbook
  resp,           \* per handler: the response sent, NoResp when none
  nSub,           \* per handler: submissions taken up so far
  report,         \* the last answer of GET /api/attendance/records
  lastSet,        \* the last success answer of POST /api/set-expected-ip
  myIp,           \* the last request to GET /api/my-ip and its answer
  adminReq        \* the last request to an admin endpoint that was put on record

vars == <<now, ALLOWED_IP, ADMIN_TOKEN, dbFile, dbUsers, dbAttendance, xlsFile,
          xlsRows, pc, loc, wb, resp, nSub, report, lastSet, myIp, adminReq>>

config == <<ALLOWED_IP, ADMIN_TOKEN>>
dbVars == <<dbFile, dbUsers, dbAttendance>>
xlsVars == <<xlsFile, xlsRows>>

NoResp == [code |-> 0]
NoUsers == [id \in {} |-> Null]
NoReport == [code |-> 0]
NoSet == [code |-> 0]
NoMyIp == [code |-> 0]
NoAdminReq == [code |-> 0]

\* the handler's locals as declared at server.js 180-185, before anything is computed;
\* excelError and dbError tell whether the catch blocks at 359-364 and 381-387 ran
NoLoc ==
  [student_id |-> Empty, student_name |-> Empty, clientIp |-> Empty,
   allowedIp |-> Empty, isPrivate |-> FALSE, proxy |-> "", status |-> "Absent",
   reason |-> "null", today |-> 0, timestamp |-> 0, excelError |-> FALSE,
   dbError |-> FALSE]

\* toISOString().slice(0, 10) / split('T')[0] : the UTC calendar date of an instant
DateOf(ts) == ts \div TicksPerDay
\* toLocaleTimeString: the time of day of an instant, the server running in UTC
TimeOf(ts) == ts % TicksPerDay

HeaderRow == <<"ID", "Name", "Date", "Time", "IP Address", "Status">>

\* the process after start-up, with its default expected address drawn from defaults
InitOf(defaults, adminTokens) ==
  /\ now = 0
  /\ ALLOWED_IP \in defaults
  /\ ADMIN_TOKEN \in adminTokens
  /\ dbFile = "missing"
  /\ dbUsers = NoUsers
  /\ dbAttendance = << >>
  /\ xlsFile = "missing"
  /\ xlsRows = << >>
  /\ pc = [r \in Handlers |-> "idle"]
  /\ loc = [r \in Handlers |-> NoLoc]
  /\ wb = [r \in Handlers |-> << >>]
  /\ resp = [r \in Handlers |-> NoResp]
  /\ nSub = [r \in Handlers |-> 0]
  /\ report = NoReport
  /\ lastSet = NoSet
  /\ myIp = NoMyIp
  /\ adminReq = NoAdminReq

\* the process started with ADMIN_TOKEN set
InitWith(defaults) == InitOf(defaults, {Secret})

Init == InitWith(DefaultIps)

----------------------------------------------------------------------------
(* db.js *)

\* the content of db.json is returned whatever the state of the file
loadDb_NoCatch == [users |-> dbUsers, attendance |-> dbAttendance]

\* loadDb: the content of db.json; the empty structure when the file is missing
\* (lines 12-16) and when the read or the parse throws (the catch at 20-24)
loadDb ==
  IF dbFile # "ok"
    THEN [users |-> NoUsers, attendance |-> << >>]
    ELSE [users |-> dbUsers, attendance |-> dbAttendance]

getExpectedIp(studentId) ==
  LET db == loadDb
  IN IF studentId \notin DOMAIN db.users THEN Null
     ELSE IF db.users[studentId].expectedIp = Empty THEN Null
     ELSE db.users[studentId].expectedIp

\* the filter reads a field the records do not have: nothing matches
getAttendanceForStudent_WrongField(studentId) ==
  SelectSeq(loadDb.attendance, LAMBDA record : FALSE)

getAttendanceForStudent(studentId) ==
  SelectSeq(loadDb.attendance, LAMBDA record : record.student_id = studentId)

\* db.json after a load: a missing file has been created with the empty
\* structure (lines 12-16); a file that cannot be read or parsed is left alone
AfterLoad == IF dbFile = "missing" THEN "ok" ELSE dbFile


\* the record replaces what db.json held instead of being pushed onto it
addAttendance_Overwrite(record) == <<record>>


\* the record is put in front of the records of db.json
addAttendance_Prepend(record) == <<record>> \o loadDb.attendance

\* db.attendance.push(record)
addAttendance(record) == Append(loadDb.attendance, record)


\* an entry that exists is kept: the first address set for an identity wins
setExpectedIp_KeepFirst(studentId, expectedIp) ==
  LET db == loadDb
  IN [id \in DOMAIN db.users \cup {studentId} |->
        IF id \in DOMAIN db.users THEN db.users[id]
        ELSE [expectedIp |-> expectedIp]]

\* db.users[studentId] = { expectedIp, updatedAt }; updatedAt is never read and is left out
setExpectedIp(studentId, expectedIp) ==
  LET db == loadDb
  IN [id \in DOMAIN db.users \cup {studentId} |->
        IF id = studentId THEN [expectedIp |-> expectedIp]
        ELSE db.users[id]]

----------------------------------------------------------------------------
(* server.js: POST /api/attendance/mark *)

\* the operands of || in the wrong order: the process default wins over the entry
AllowedIpFor_DefaultFirst(student_id) ==
  IF ALLOWED_IP # Empty THEN ALLOWED_IP
  ELSE IF getExpectedIp(student_id) # Null THEN getExpectedIp(student_id)
  ELSE Empty

\* db.getExpectedIp(student_id) || ALLOWED_IP || ''
AllowedIpFor(student_id) ==
  IF getExpectedIp(student_id) # Null THEN getExpectedIp(student_id)
  ELSE IF ALLOWED_IP # Empty THEN ALLOWED_IP
  ELSE Empty

\* rule 3 is tested before rule 1
AttendanceLogic_MatchFirst(isPrivate, allowedIp, clientIp) ==
  IF allowedIp # Empty /\ clientIp = allowedIp
    THEN [status |-> "Present", reason |-> "ip_matched"]
  ELSE IF isPrivate THEN [status |-> "Absent", reason |-> "private_ip"]
  ELSE IF allowedIp = Empty THEN [status |-> "Absent", reason |-> "missing_expected_ip"]
  ELSE [status |-> "Absent", reason |-> "ip_mismatch"]

\* rule 2 is tested before rule 1
AttendanceLogic_MissingFirst(isPrivate, allowedIp, clientIp) ==
  IF allowedIp = Empty THEN [status |-> "Absent", reason |-> "missing_expected_ip"]
  ELSE IF isPrivate THEN [status |-> "Absent", reason |-> "private_ip"]
  ELSE IF clientIp = allowedIp THEN [status |-> "Present", reason |-> "ip_matched"]
  ELSE [status |-> "Absent", reason |-> "ip_mismatch"]

\* the reason strings of rules 3 and 4 are exchanged
AttendanceLogic_ReasonsSwapped(isPrivate, allowedIp, clientIp) ==
  IF isPrivate THEN [status |-> "Absent", reason |-> "private_ip"]
  ELSE IF allowedIp = Empty THEN [status |-> "Absent", reason |-> "missing_expected_ip"]
  ELSE IF clientIp = allowedIp THEN [status |-> "Present", reason |-> "ip_mismatch"]
  ELSE [status |-> "Absent", reason |-> "ip_matched"]

\* ATTENDANCE LOGIC, rules 1 to 4
AttendanceLogic(isPrivate, allowedIp, clientIp) ==
  IF isPrivate THEN [status |-> "Absent", reason |-> "private_ip"]
  ELSE IF allowedIp = Empty THEN [status |-> "Absent", reason |-> "missing_expected_ip"]
  ELSE IF clientIp = allowedIp THEN [status |-> "Present", reason |-> "ip_matched"]
  ELSE [status |-> "Absent", reason |-> "ip_mismatch"]

\* the whole timestamp is compared with today, the slice(0, 10) forgotten
PresentToday_NoSlice(student_id, today) ==
  SelectSeq(getAttendanceForStudent(student_id),
            LAMBDA record : record.timestamp = today /\ record.status = "Present")


\* the history is read from the Attendance sheet when attendance.xlsx is readable
PresentToday_FromSheet(student_id, today) ==
  IF xlsFile = "ok"
    THEN SelectSeq([i \in 1..(Len(xlsRows) - 1) |->
                      [student_id |-> xlsRows[i + 1][1],
                       timestamp |-> xlsRows[i + 1][3] * TicksPerDay + xlsRows[i + 1][4],
                       status |-> xlsRows[i + 1][6]]],
                   LAMBDA record : /\ record.student_id = student_id
                                   /\ DateOf(record.timestamp) = today
                                   /\ record.status = "Present")
    ELSE SelectSeq(getAttendanceForStudent(student_id),
                   LAMBDA record : DateOf(record.timestamp) = today /\ record.status = "Present")


\* a Present record of any date counts as one of today
PresentToday_AnyDay(student_id, today) ==
  SelectSeq(getAttendanceForStudent(student_id),
            LAMBDA record : record.status = "Present")

\* attendanceToday.find(...): the records of the student dated today with status Present
PresentToday(student_id, today) ==
  SelectSeq(getAttendanceForStudent(student_id),
            LAMBDA record : DateOf(record.timestamp) = today /\ record.status = "Present")

\* the test of the new status is left out
Suppressed_AnyStatus(alreadyMarkedPresent, status) ==
  alreadyMarkedPresent # << >>

\* line 261
Suppressed(alreadyMarkedPresent, status) ==
  alreadyMarkedPresent # << >> /\ status = "Present"

\* the response tells whether the Excel save failed
SuccessResponse_Degraded(locals) ==
  [code |-> 200, success |-> TRUE,
   message |-> IF locals.status = "Present"
                 THEN <<"Successfully marked Present", 0>>
                 ELSE <<"Marked Absent", 0>>,
   status |-> locals.status,
   clientIp |-> locals.clientIp,
   expectedIp |-> IF locals.allowedIp = Empty THEN Null ELSE locals.allowedIp,
   isPrivate |-> locals.isPrivate,
   proxy |-> locals.proxy,
   reason |-> locals.reason,
   degraded |-> locals.excelError]

\* lines 393-405
SuccessResponse(locals) ==
  [code |-> 200, success |-> TRUE,
   message |-> IF locals.status = "Present"
                 THEN <<"Successfully marked Present", 0>>
                 ELSE <<"Marked Absent", 0>>,
   status |-> locals.status,
   clientIp |-> locals.clientIp,
   expectedIp |-> IF locals.allowedIp = Empty THEN Null ELSE locals.allowedIp,
   isPrivate |-> locals.isPrivate,
   proxy |-> locals.proxy,
   reason |-> locals.reason]

Finish(r, response) ==
  /\ pc' = [pc EXCEPT ![r] = "done"]
  /\ resp' = [resp EXCEPT ![r] = response]

\* the request is answered 400 only after the database has been loaded
Rejected_AfterLoad(r, message) ==
  /\ Finish(r, [code |-> 400, success |-> FALSE, message |-> message])
  /\ loc' = [loc EXCEPT ![r] = NoLoc]
  /\ dbFile' = AfterLoad
  /\ UNCHANGED now

\* lines 169-175 and 189-198: the request is answered 400 and the handler returns
Rejected(r, message) ==
  /\ Finish(r, [code |-> 400, success |-> FALSE, message |-> message])
  /\ loc' = [loc EXCEPT ![r] = NoLoc]
  /\ UNCHANGED <<now, dbFile>>

\* lines 160-295: from the arrival of the request to the await of readFile
MarkBegin(r, student_id, student_name, xff, peer) ==
  /\ pc[r] \in {"idle", "done"}
  /\ nSub' = [nSub EXCEPT ![r] = @ + 1]
  /\ wb' = [wb EXCEPT ![r] = << >>]
  /\ UNCHANGED <<config, dbUsers, dbAttendance, xlsVars, report, lastSet, myIp, adminReq>>
  /\ IF student_id = Empty \/ student_name = Empty
       THEN Rejected(r, "Student ID and name are required.")
       ELSE
    LET clientIp == extractClientIp(xff, peer, peer)
        allowedIp == AllowedIpFor(student_id)
        isPrivate == isPrivateIp(clientIp)
        proxy == possibleProxy(xff)
        decision == AttendanceLogic(isPrivate, allowedIp, clientIp)
        today == DateOf(now)
        alreadyMarkedPresent == PresentToday(student_id, today)
        locals == [NoLoc EXCEPT !.student_id = student_id,
                                !.student_name = student_name,
                                !.clientIp = clientIp,
                                !.allowedIp = allowedIp,
                                !.isPrivate = isPrivate,
                                !.proxy = proxy,
                                !.status = decision.status,
                                !.reason = decision.reason,
                                !.today = today]
    IN IF clientIp = Empty
         THEN Rejected(r, "Could not determine your IP address.")
       ELSE IF Suppressed(alreadyMarkedPresent, decision.status)
         THEN /\ Finish(r, [code |-> 200, success |-> TRUE, alreadyMarked |-> TRUE,
                            status |-> "Present",
                            message |-> <<"Already marked present today",
                                          alreadyMarkedPresent[1].timestamp>>])
              /\ loc' = [loc EXCEPT ![r] = locals]
              /\ dbFile' = AfterLoad
              /\ UNCHANGED now
       ELSE \* line 277: the clock is read again in the same synchronous block
            /\ loc' = [loc EXCEPT ![r] = [locals EXCEPT !.timestamp = now]]
            /\ pc' = [pc EXCEPT ![r] = "readFile"]
            /\ resp' = [resp EXCEPT ![r] = NoResp]
            /\ dbFile' = AfterLoad
            /\ UNCHANGED now

\* lines 295-356: readFile completes; the worksheet is found or created and the row added
ExcelRead(r, readOk) ==
  /\ pc[r] = "readFile"
  /\ LET worksheet == IF xlsFile = "ok" /\ readOk THEN xlsRows ELSE <<HeaderRow>>
         dataRow == <<loc[r].student_id, loc[r].student_name,
                      DateOf(loc[r].timestamp), TimeOf(loc[r].timestamp),
                      loc[r].clientIp, loc[r].status>>
     IN wb' = [wb EXCEPT ![r] = Append(worksheet, dataRow)]
  /\ pc' = [pc EXCEPT ![r] = "writeFile"]
  /\ UNCHANGED <<now, config, dbVars, xlsVars, loc, resp, nSub, report, lastSet, myIp, adminReq>>

\* the catch at 359-364 answers 500 instead of going on to db.json
ExcelWrite_Abort(r, writeOk) ==
  /\ pc[r] = "writeFile"
  /\ IF writeOk
       THEN /\ xlsFile' = "ok"
            /\ xlsRows' = wb[r]
            /\ UNCHANGED <<loc, resp>>
            /\ pc' = [pc EXCEPT ![r] = "saveJson"]
       ELSE /\ loc' = [loc EXCEPT ![r].excelError = TRUE]
            /\ UNCHANGED xlsVars
            /\ pc' = [pc EXCEPT ![r] = "done"]
            /\ resp' = [resp EXCEPT ![r] = [code |-> 500, success |-> FALSE,
                                            message |-> "Server error saving attendance."]]
  /\ UNCHANGED <<now, config, dbVars, wb, nSub, report, lastSet, myIp, adminReq>>


\* the success response is sent as soon as writeFile returns, before db.json is touched
ExcelWrite_RespondEarly(r, writeOk) ==
  /\ pc[r] = "writeFile"
  /\ IF writeOk
       THEN /\ xlsFile' = "ok"
            /\ xlsRows' = wb[r]
            /\ UNCHANGED loc
            /\ resp' = [resp EXCEPT ![r] = SuccessResponse(loc[r])]
       ELSE /\ loc' = [loc EXCEPT ![r].excelError = TRUE]
            /\ UNCHANGED <<xlsVars, resp>>
  /\ pc' = [pc EXCEPT ![r] = "saveJson"]
  /\ UNCHANGED <<now, config, dbVars, wb, nSub, report, lastSet, myIp, adminReq>>


\* the catch at 359-364 answers 500 and the handler goes on all the same
ExcelWrite_AnswerOnError(r, writeOk) ==
  /\ pc[r] = "writeFile"
  /\ IF writeOk
       THEN /\ xlsFile' = "ok"
            /\ xlsRows' = wb[r]
            /\ UNCHANGED <<loc, resp>>
       ELSE /\ loc' = [loc EXCEPT ![r].excelError = TRUE]
            /\ UNCHANGED xlsVars
            /\ resp' = [resp EXCEPT ![r] = [code |-> 500, success |-> FALSE,
                                            message |-> "Server error saving attendance."]]
  /\ pc' = [pc EXCEPT ![r] = "saveJson"]
  /\ UNCHANGED <<now, config, dbVars, wb, nSub, report, lastSet, myIp, adminReq>>

\* line 356: writeFile replaces the file, or fails and the catch at 359-364 runs
ExcelWrite(r, writeOk) ==
  /\ pc[r] = "writeFile"
  /\ IF writeOk
       THEN /\ xlsFile' = "ok"
            /\ xlsRows' = wb[r]
            /\ UNCHANGED loc
       ELSE /\ loc' = [loc EXCEPT ![r].excelError = TRUE]
            /\ UNCHANGED xlsVars
  /\ pc' = [pc EXCEPT ![r] = "saveJson"]
  /\ UNCHANGED <<now, config, dbVars, wb, resp, nSub, report, lastSet, myIp, adminReq>>

\* the catch at 381-387 only logs, and the success response is sent
JsonSave_Swallow(r, saveOk) ==
  /\ pc[r] = "saveJson"
  /\ IF saveOk
       THEN /\ dbAttendance' =
                 addAttendance([timestamp |-> now,
                                student_id |-> loc[r].student_id,
                                student_name |-> loc[r].student_name,
                                status |-> loc[r].status,
                                clientIp |-> loc[r].clientIp,
                                allowedIp |-> IF loc[r].allowedIp = Empty THEN Null
                                              ELSE loc[r].allowedIp,
                                isPrivate |-> loc[r].isPrivate,
                                proxy |-> loc[r].proxy,
                                reason |-> loc[r].reason])
            /\ dbUsers' = loadDb.users
            /\ dbFile' = "ok"
            /\ UNCHANGED loc
       ELSE /\ loc' = [loc EXCEPT ![r].dbError = TRUE]
            /\ UNCHANGED dbVars
  /\ Finish(r, SuccessResponse(loc[r]))
  /\ wb' = [wb EXCEPT ![r] = << >>]
  /\ UNCHANGED <<now, config, xlsVars, nSub, report, lastSet, myIp, adminReq>>

\* lines 366-405: the record is added to db.json and the response sent
JsonSave(r, saveOk) ==
  /\ pc[r] = "saveJson"
  /\ LET record == [timestamp |-> now,
                    student_id |-> loc[r].student_id,
                    student_name |-> loc[r].student_name,
                    status |-> loc[r].status,
                    clientIp |-> loc[r].clientIp,
                    allowedIp |-> IF loc[r].allowedIp = Empty THEN Null
                                  ELSE loc[r].allowedIp,
                    isPrivate |-> loc[r].isPrivate,
                    proxy |-> loc[r].proxy,
                    reason |-> loc[r].reason]
     IN IF saveOk
          THEN /\ dbAttendance' = addAttendance(record)
               /\ dbUsers' = loadDb.users
               /\ dbFile' = "ok"
               /\ UNCHANGED loc
               /\ Finish(r, SuccessResponse(loc[r]))
          ELSE /\ loc' = [loc EXCEPT ![r].dbError = TRUE]
               /\ UNCHANGED dbVars
               /\ Finish(r, [code |-> 500, success |-> FALSE,
                             message |-> "Server error saving attendance to database."])
  /\ wb' = [wb EXCEPT ![r] = << >>]
  /\ UNCHANGED <<now, config, xlsVars, nSub, report, lastSet, myIp, adminReq>>

----------------------------------------------------------------------------
(* server.js: POST /api/set-expected-ip *)

\* the token is compared even when the process has no admin token
SetStatus_NoTokenConfigured(token, student_id, expected_ip, saveOk) ==
  IF token # ADMIN_TOKEN THEN 401
  ELSE IF student_id = Empty \/ expected_ip = Empty THEN 400
  ELSE IF saveOk THEN 200 ELSE 500

\* the status code of the answer: lines 477-480, 484-489, 494 and 501-507
SetStatus(token, student_id, expected_ip, saveOk) ==
  IF ADMIN_TOKEN = Empty \/ token # ADMIN_TOKEN THEN 401
  ELSE IF student_id = Empty \/ expected_ip = Empty THEN 400
  ELSE IF saveOk THEN 200 ELSE 500

\* lines 473-508; putting the request on record is left to the caller
SetExpectedIp(token, student_id, expected_ip, saveOk) ==
  LET status == SetStatus(token, student_id, expected_ip, saveOk)
  IN /\ IF status = 200
          THEN /\ dbUsers' = setExpectedIp(student_id, expected_ip)
               /\ dbAttendance' = loadDb.attendance
               /\ dbFile' = "ok"
               /\ lastSet' = [code |-> 200, student_id |-> student_id,
                              expected_ip |-> expected_ip]
          ELSE UNCHANGED <<dbVars, lastSet>>
     /\ UNCHANGED <<now, config, xlsVars, pc, loc, wb, resp, nSub, report, myIp>>

----------------------------------------------------------------------------
(* server.js: GET /api/my-ip *)

Unknown == <<"(", "u", "n", "k", "n", "o", "w", "n", ")">>

\* lines 421-434: the address of the caller as the server sees it; req.connection
\* is the socket, so both remoteAddress reads give the peer address
MyIp(xff, peer) ==
  /\ LET clientIp == IF extractClientIp(xff, peer, peer) = Empty THEN Unknown
                     ELSE extractClientIp(xff, peer, peer)
     IN myIp' = [code |-> 200, xff |-> xff, peer |-> peer,
                 clientIp |-> clientIp,
                 isPrivate |-> isPrivateIp(clientIp),
                 possibleProxy |-> possibleProxy(xff)]
  /\ UNCHANGED <<now, config, dbVars, xlsVars, pc, loc, wb, resp, nSub, report, lastSet,
                 adminReq>>

----------------------------------------------------------------------------
(* server.js: GET /api/attendance/records *)

\* the rows of the first worksheet of a workbook that has no Attendance sheet
OtherSheet == <<<<"Notes">>>>

\* db.attendance || []
getAllAttendance == loadDb.attendance

\* lines 584-589, String(v).trim() of the six cells; the date and time cells
\* hold formatted instants, which have no blanks to trim
RowToRecord(row) ==
  [id |-> Trim(row[1]), name |-> Trim(row[2]), date |-> row[3], time |-> row[4],
   ip |-> Trim(row[5]), status |-> row[6]]

\* lines 569-602, sheet.eachRow: row 1 is skipped, and so is a row whose id
\* and name are both empty after the trim
ReadAll(rows) ==
  LET data == IF rows = << >> THEN << >> ELSE Tail(rows)
      parsed == [i \in 1..Len(data) |-> RowToRecord(data[i])]
  IN SelectSeq(parsed, LAMBDA rec : rec.id # Empty \/ rec.name # Empty)

\* lines 608-638: the records of db.json, date and time formatted from the timestamp
FromDb ==
  LET all == getAllAttendance
  IN [i \in 1..Len(all) |->
        [id |-> all[i].student_id, name |-> all[i].student_name,
         date |-> DateOf(all[i].timestamp), time |-> TimeOf(all[i].timestamp),
         ip |-> all[i].clientIp, status |-> all[i].status]]

\* lines 547-654; usedDb tells whether the catch at 605-639 ran; putting the
\* request on record is left to the caller
Report(token, readOk) ==
  /\ IF ADMIN_TOKEN = Empty \/ token # ADMIN_TOKEN
       THEN /\ report' = [code |-> 401]
            /\ UNCHANGED dbFile
       ELSE IF xlsFile = "missing"
         THEN /\ report' = [code |-> 200, records |-> << >>, usedDb |-> FALSE]
              /\ UNCHANGED dbFile
       ELSE IF xlsFile = "corrupt" \/ ~readOk
         THEN /\ report' = [code |-> 200, records |-> FromDb, usedDb |-> TRUE]
              /\ dbFile' = AfterLoad
       ELSE /\ report' = [code |-> 200, usedDb |-> FALSE,
                          records |-> IF xlsFile = "nosheet" THEN ReadAll(OtherSheet)
                                      ELSE ReadAll(xlsRows)]
            /\ UNCHANGED dbFile
  /\ UNCHANGED <<now, config, dbUsers, dbAttendance, xlsVars, pc, loc, wb, resp, nSub,
                 lastSet, myIp>>

----------------------------------------------------------------------------
(* The files, as changed from outside the process *)

\* attendance.xlsx is deleted, overwritten with something that is not a
\* workbook, or replaced by a workbook without an Attendance sheet
XlsxFault(kind) ==
  /\ xlsFile # kind
  /\ xlsFile' = kind
  /\ xlsRows' = << >>
  /\ UNCHANGED <<now, config, dbVars, pc, loc, wb, resp, nSub, report, lastSet, myIp, adminReq>>

\* reading db.json starts to fail while its content stays what it is
DbFault ==
  /\ dbFile = "ok"
  /\ dbFile' = "unreadable"
  /\ UNCHANGED <<now, config, dbUsers, dbAttendance, xlsVars, pc, loc, wb, resp, nSub,
                 report, lastSet, myIp, adminReq>>

\* reading db.json works again
DbReadable ==
  /\ dbFile = "unreadable"
  /\ dbFile' = "ok"
  /\ UNCHANGED <<now, config, dbUsers, dbAttendance, xlsVars, pc, loc, wb, resp, nSub,
                 report, lastSet, myIp, adminReq>>

----------------------------------------------------------------------------
(* The clock *)

Tick ==
  /\ now < MaxClock
  /\ now' = now + 1
  /\ UNCHANGED <<config, dbVars, xlsVars, pc, loc, wb, resp, nSub, report, lastSet, myIp, adminReq>>

----------------------------------------------------------------------------
(* Specifications *)

Submit(r, ids, names, xffs, peers) ==
  \E student_id \in ids, student_name \in names, xff \in xffs, peer \in peers :
    MarkBegin(r, student_id, student_name, xff, peer)

Excel(r) ==
  \/ \E readOk \in BOOLEAN : ExcelRead(r, readOk)
  \/ \E writeOk \in BOOLEAN : ExcelWrite(r, writeOk)

Json(r) == \E saveOk \in BOOLEAN : JsonSave(r, saveOk)

Admin(ids, ips) ==
  \E token \in Tokens, student_id \in ids, expected_ip \in ips, saveOk \in BOOLEAN :
    /\ SetExpectedIp(token, student_id, expected_ip, saveOk)
    /\ UNCHANGED adminReq

\* Concurrent submissions, each in a handler activation of its own, that overlap
\* within one tick of the clock
Next ==
  \/ \E r \in Handlers :
       /\ pc[r] = "idle"
       /\ Submit(r, StudentIds, StudentNames, ForwardedHeaders, PeerAddresses)
  \/ \E r \in Handlers : Excel(r)
  \/ \E r \in Handlers : Json(r)
  \/ Admin(RegistryIds, RegistryIps)

Spec == Init /\ [][Next]_vars

\* Submissions that each run to completion before the next one starts, in one
\* handler, while the clock advances
SeqInit == InitWith(SeqDefaultIps)

SeqNext ==
  \/ /\ nSub[1] < MaxSubmissions
     /\ Submit(1, StudentIds, StudentNames, ForwardedHeaders, PeerAddresses)
  \/ Excel(1)
  \/ Json(1)
  \/ Admin(RegistryIds, RegistryIps)
  \/ Tick

SeqSpec == SeqInit /\ [][SeqNext]_vars

\* The decision of single submissions over every kind of input and registry state
DecisionInit == InitWith(DecisionDefaultIps)

DecisionNext ==
  \/ /\ nSub[1] < MaxDecisions
     /\ Submit(1, DecisionStudentIds, DecisionStudentNames,
                DecisionForwardedHeaders, DecisionPeerAddresses)
  \/ Excel(1)
  \/ Json(1)
  \/ Admin(DecisionRegistryIds, DecisionRegistryIps)

DecisionSpec == DecisionInit /\ [][DecisionNext]_vars

\* Submissions one after the other and one report, while attendance.xlsx is
\* deleted, damaged or replaced from outside and the clock advances
ReportInit == InitWith(ReportDefaultIps)

Reports ==
  \E token \in Tokens, readOk \in BOOLEAN :
    /\ Report(token, readOk)
    /\ UNCHANGED adminReq

ReportNext ==
  \/ /\ nSub[1] < MaxReportWrites
     /\ Submit(1, ReportStudentIds, StudentNames, ForwardedHeaders, PeerAddresses)
  \/ Excel(1)
  \/ Json(1)
  \/ \E kind \in XlsxFaults : XlsxFault(kind)
  \/ /\ report = NoReport
     /\ Reports
  \/ Tick

ReportSpec == ReportInit /\ [][ReportNext]_vars

\* Submissions one after the other within one tick of the clock, with ids and
\* names that have blanks, and one report of the sheet they wrote
SheetNext ==
  \/ /\ nSub[1] < MaxSheetWrites
     /\ Submit(1, SheetStudentIds, SheetStudentNames, ForwardedHeaders, PeerAddresses)
  \/ Excel(1)
  \/ Json(1)
  \/ \E kind \in SheetFaults : XlsxFault(kind)
  \/ /\ report = NoReport
     /\ Reports

SheetSpec == Init /\ [][SheetNext]_vars

\* Submissions one after the other, registry updates and one report, while
\* reading db.json fails from time to time
\* (StoreInit: with or without a process default)
StoreNext ==
  \/ /\ nSub[1] < MaxStoreWrites
     /\ Submit(1, StoreStudentIds, StudentNames, ForwardedHeaders, PeerAddresses)
  \/ Excel(1)
  \/ Json(1)
  \/ Admin(RegistryIds, RegistryIps)
  \/ DbFault
  \/ DbReadable
  \/ /\ report = NoReport
     /\ Reports

StoreInit == InitWith(SeqDefaultIps)

StoreSpec == StoreInit /\ [][StoreNext]_vars

\* Registry updates for two identities, between submissions of one of them
RegistryNext ==
  \/ Admin(LastWriteIds, LastWriteIps)
  \/ /\ nSub[1] < MaxRegistryWrites
     /\ Submit(1, RegistryIds, StudentNames, ForwardedHeaders, PeerAddresses)
  \/ Excel(1)
  \/ Json(1)

RegistrySpec == Init /\ [][RegistryNext]_vars

\* Submissions one after the other while the clock advances, every read and
\* write of attendance.xlsx and db.json succeeding
CleanNext ==
  \/ /\ nSub[1] < MaxCleanWrites
     /\ Submit(1, StudentIds, StudentNames, ForwardedHeaders, PeerAddresses)
  \/ ExcelRead(1, TRUE)
  \/ ExcelWrite(1, TRUE)
  \/ JsonSave(1, TRUE)
  \/ \E token \in Tokens, student_id \in RegistryIds, expected_ip \in RegistryIps :
       /\ SetExpectedIp(token, student_id, expected_ip, TRUE)
       /\ UNCHANGED adminReq
  \/ Tick

CleanSpec == SeqInit /\ [][CleanNext]_vars

\* One request for the caller's address, over every forwarding header and
\* peer address
ClassifyNext ==
  /\ myIp = NoMyIp
  /\ \E xff \in ClassifyForwardedHeaders, peer \in ClassifyPeerAddresses : MyIp(xff, peer)

ClassifySpec == Init /\ [][ClassifyNext]_vars

\* Admin requests with every kind of token, put on record, between submissions
AuditedSet ==
  \E token \in AuthTokens, student_id \in RegistryIds, expected_ip \in RegistryIps,
     saveOk \in BOOLEAN :
    /\ SetExpectedIp(token, student_id, expected_ip, saveOk)
    /\ adminReq' = [code |-> SetStatus(token, student_id, expected_ip, saveOk),
                    endpoint |-> "set-expected-ip", token |-> token]

AuditedReport ==
  \E token \in AuthTokens, readOk \in BOOLEAN :
    /\ Report(token, readOk)
    /\ adminReq' = [code |-> report'.code, endpoint |-> "records", token |-> token]

AuthNext ==
  \/ AuditedSet
  \/ AuditedReport
  \/ /\ nSub[1] < MaxAuthWrites
     /\ Submit(1, StoreStudentIds, StudentNames, ForwardedHeaders, PeerAddresses)
  \/ Excel(1)
  \/ Json(1)

AuthInit == InitOf(DefaultIps, AuthAdminTokens)

AuthSpec == AuthInit /\ [][AuthNext]_vars

\* The store specification with every awaited file operation completing, with
\* a result or an exception: a handler between two awaits is resumed
LiveSpec ==
  /\ StoreInit
  /\ [][StoreNext]_vars
  /\ WF_vars(Excel(1))
  /\ WF_vars(Json(1))

\* One submission over every kind of header and peer address, against every
\* registry state
PeerNext ==
  \/ /\ nSub[1] < MaxPeerWrites
     /\ Submit(1, DecisionStudentIds, DecisionStudentNames,
                DecisionForwardedHeaders, DecisionPeerAddresses)
  \/ Excel(1)
  \/ Json(1)
  \/ Admin(DecisionRegistryIds, DecisionRegistryIps)

PeerSpec == DecisionInit /\ [][PeerNext]_vars

----------------------------------------------------------------------------
(* Properties *)

Days == 0..DateOf(MaxClock)
Identities == {U001, U002}

\* positions in db.json of the Present records of an identity dated day
PresentRecords(id, day) ==
  {i \in DOMAIN dbAttendance :
     /\ dbAttendance[i].student_id = id
     /\ DateOf(dbAttendance[i].timestamp) = day
     /\ dbAttendance[i].status = "Present"}

\* handler r takes up a new submission in this step
Began(r) == nSub'[r] # nSub[r]

AlreadyMarked(response) == "alreadyMarked" \in DOMAIN response

\* a success response that is not a suppressed duplicate
Accepted(response) == response.code = 200 /\ ~AlreadyMarked(response)

\* C1: of concurrent submissions of one identity that all compute Present on the
\* same UTC date, exactly one persists a Present record and the others are
\* answered alreadyMarked
C1_ConcurrentPresentOnce ==
  \A r, q \in Handlers :
    ( /\ r # q
      /\ pc[r] = "done" /\ pc[q] = "done"
      /\ resp[r].code = 200 /\ resp[q].code = 200
      /\ loc[r].status = "Present" /\ loc[q].status = "Present"
      /\ loc[r].student_id = loc[q].student_id
      /\ loc[r].today = loc[q].today )
    => /\ Cardinality(PresentRecords(loc[r].student_id, loc[r].today)) = 1
       /\ AlreadyMarked(resp[r]) # AlreadyMarked(resp[q])

\* C2: when submissions run one after the other, db.json holds at most one
\* Present record per identity and UTC date
C2_AtMostOnePresentPerDay ==
  \A id \in Identities, day \in Days : Cardinality(PresentRecords(id, day)) <= 1

\* a second Present submission of the day was answered while the first one's
\* record, written after a failed Excel save or not, is the only Present record
C2_Witness ==
  /\ pc[1] = "done"
  /\ AlreadyMarked(resp[1])
  /\ Cardinality(PresentRecords(loc[1].student_id, loc[1].today)) = 1
  /\ Len(dbAttendance) >= 1

\* C3: a submission that computes Present while the identity has a Present
\* record dated today is answered alreadyMarked with the timestamp of that
\* record (the first one in the file), and neither store changes
C3_DuplicateSuppressed ==
  [][\A r \in Handlers :
       ( /\ Began(r)
         /\ loc'[r].status = "Present"
         /\ PresentRecords(loc'[r].student_id, DateOf(now)) # {} )
       => LET existing == PresentRecords(loc'[r].student_id, DateOf(now))
              first == CHOOSE i \in existing : \A j \in existing : i <= j
          IN /\ pc'[r] = "done"
             /\ resp'[r].code = 200
             /\ AlreadyMarked(resp'[r])
             /\ resp'[r].alreadyMarked = TRUE
             /\ resp'[r].message[2] = dbAttendance[first].timestamp
             /\ dbAttendance' = dbAttendance
             /\ xlsRows' = xlsRows /\ xlsFile' = xlsFile]_vars

\* a duplicate was suppressed at a later tick than the one of the original record
C3_Witness ==
  \E r \in Handlers :
    /\ pc[r] = "done"
    /\ AlreadyMarked(resp[r])
    /\ resp[r].message[2] < now
    /\ DateOf(resp[r].message[2]) = DateOf(now)

\* C4: a submission that computes Absent is never suppressed: it goes on to the
\* stores, is never answered alreadyMarked, and when its save to db.json
\* succeeds exactly one Absent record of it is appended
C4_AbsentNeverSuppressed ==
  [][\A r \in Handlers :
       /\ ( Began(r) /\ loc'[r].student_id # Empty /\ loc'[r].status = "Absent" )
          => /\ pc'[r] = "readFile"
             /\ resp'[r] = NoResp
       /\ ( pc[r] = "saveJson" /\ pc'[r] = "done" /\ loc[r].status = "Absent" )
          => /\ ~AlreadyMarked(resp'[r])
             /\ \/ /\ resp'[r].code = 500
                   /\ loc'[r].dbError
                   /\ dbAttendance' = dbAttendance
                \/ /\ Accepted(resp'[r])
                   /\ resp'[r].status = "Absent"
                   /\ Len(dbAttendance') = Len(dbAttendance) + 1
                   /\ SubSeq(dbAttendance', 1, Len(dbAttendance)) = dbAttendance
                   /\ dbAttendance'[Len(dbAttendance')].status = "Absent"
                   /\ dbAttendance'[Len(dbAttendance')].student_id = loc[r].student_id]_vars

\* an Absent record was appended for an identity after its Present record of the day
C4_Witness ==
  \E i, j \in DOMAIN dbAttendance :
    /\ i < j
    /\ dbAttendance[i].student_id = dbAttendance[j].student_id
    /\ DateOf(dbAttendance[i].timestamp) = DateOf(dbAttendance[j].timestamp)
    /\ dbAttendance[i].status = "Present"
    /\ dbAttendance[j].status = "Absent"

\* what was decided for the submissions in the handlers and in db.json:
\* the triple the decision is made from and its result
Decisions ==
  {[clientIp |-> loc[r].clientIp, isPrivate |-> loc[r].isPrivate,
    allowedIp |-> loc[r].allowedIp, status |-> loc[r].status,
    reason |-> loc[r].reason] : r \in {h \in Handlers : loc[h].clientIp # Empty}}
  \cup
  {[clientIp |-> dbAttendance[i].clientIp, isPrivate |-> dbAttendance[i].isPrivate,
    allowedIp |-> IF dbAttendance[i].allowedIp = Null THEN Empty
                  ELSE dbAttendance[i].allowedIp,
    status |-> dbAttendance[i].status,
    reason |-> dbAttendance[i].reason] : i \in DOMAIN dbAttendance}

\* C5: a submission whose address is classified private is Absent with reason
\* private_ip, whatever the registry entry and the process default are
C5_PrivateIsAbsent ==
  /\ \A d \in Decisions :
       (d.isPrivate \/ d.clientIp = IpHome)
       => d.status = "Absent" /\ d.reason = "private_ip"
  /\ \A r \in Handlers :
       (Accepted(resp[r]) /\ resp[r].isPrivate)
       => resp[r].status = "Absent" /\ resp[r].reason = "private_ip"

\* a submission from a private address that equals its expected address was answered
C5_Witness ==
  /\ pc[1] = "done"
  /\ Accepted(resp[1])
  /\ resp[1].isPrivate
  /\ resp[1].clientIp = IpHome
  /\ resp[1].expectedIp = IpHome

\* C6: the decision is the reference function of (observedAddress, isPrivate,
\* expectedAddress or absent), and equal triples have equal results
C6_DecisionIsReference ==
  /\ \A d \in Decisions :
       /\ d.isPrivate => d.status = "Absent" /\ d.reason = "private_ip"
       /\ (~d.isPrivate /\ d.allowedIp = Empty)
          => d.status = "Absent" /\ d.reason = "missing_expected_ip"
       /\ (~d.isPrivate /\ d.allowedIp # Empty /\ d.clientIp = d.allowedIp)
          => d.status = "Present" /\ d.reason = "ip_matched"
       /\ (~d.isPrivate /\ d.allowedIp # Empty /\ d.clientIp # d.allowedIp)
          => d.status = "Absent" /\ d.reason = "ip_mismatch"
  /\ \A d, e \in Decisions :
       ( d.clientIp = e.clientIp /\ d.isPrivate = e.isPrivate
         /\ d.allowedIp = e.allowedIp )
       => d.status = e.status /\ d.reason = e.reason

\* two submissions were decided from the same triple, and one by each other rule
C6_Witness ==
  /\ \E i, j \in DOMAIN dbAttendance :
       /\ i < j
       /\ dbAttendance[i].clientIp = dbAttendance[j].clientIp
       /\ dbAttendance[i].allowedIp = dbAttendance[j].allowedIp
       /\ dbAttendance[i].reason = "ip_mismatch"
       /\ dbAttendance[j].reason = "ip_mismatch"
  /\ loc[1].reason = "ip_mismatch"

\* C7: in every record of db.json and every accepted response, status is
\* Present exactly when reason is ip_matched
C7_PresentIffMatched ==
  /\ \A i \in DOMAIN dbAttendance :
       /\ dbAttendance[i].status \in {"Present", "Absent"}
       /\ dbAttendance[i].reason \in
            {"ip_matched", "ip_mismatch", "private_ip", "missing_expected_ip"}
       /\ dbAttendance[i].status = "Present" <=> dbAttendance[i].reason = "ip_matched"
  /\ \A r \in Handlers :
       Accepted(resp[r])
       => /\ resp[r].status \in {"Present", "Absent"}
          /\ resp[r].status = "Present" <=> resp[r].reason = "ip_matched"

\* a Present record and an Absent record with a mismatch are in db.json
C7_Witness ==
  /\ \E i, j \in DOMAIN dbAttendance :
       /\ dbAttendance[i].status = "Present"
       /\ dbAttendance[j].reason = "ip_mismatch"
  /\ Accepted(resp[1])

\* C8: the expected address of a submission is the registry entry of the
\* identity if there is one, else the process default, else absent; with
\* neither, a submission from a public address is Absent, missing_expected_ip
C8_ExpectedAddressFallback ==
  [][\A r \in Handlers :
       ( Began(r) /\ loc'[r].clientIp # Empty )
       => LET id == loc'[r].student_id
              hasEntry == dbFile = "ok" /\ id \in DOMAIN dbUsers
          IN /\ hasEntry => loc'[r].allowedIp = dbUsers[id].expectedIp
             /\ ~hasEntry => loc'[r].allowedIp = ALLOWED_IP
             /\ (~hasEntry /\ ALLOWED_IP = Empty /\ ~loc'[r].isPrivate)
                => /\ loc'[r].status = "Absent"
                   /\ loc'[r].reason = "missing_expected_ip"]_vars

\* with a default configured, one submission was compared against the default
\* and another against a registry entry that differs from it
C8_Witness ==
  /\ ALLOWED_IP # Empty
  /\ \E i, j \in DOMAIN dbAttendance :
       /\ dbAttendance[i].allowedIp = ALLOWED_IP
       /\ dbAttendance[j].allowedIp \notin {ALLOWED_IP, Null}
       /\ dbAttendance[j].student_id \in DOMAIN dbUsers
       /\ dbAttendance[j].allowedIp = dbUsers[dbAttendance[j].student_id].expectedIp

\* C9: a failed Excel save does not abort the submission: the handler goes on
\* to db.json, and unless saveDb throws as well the record is appended and the
\* response is a success with a status and a reason
C9_ExcelFailureNotFatal ==
  [][\A r \in Handlers :
       /\ ( pc[r] = "writeFile" /\ loc'[r].excelError )
          => pc'[r] = "saveJson" /\ resp'[r] = NoResp
       /\ ( pc[r] = "saveJson" /\ pc'[r] = "done" /\ loc[r].excelError )
          => \/ resp'[r].code = 500 /\ loc'[r].dbError
             \/ /\ Accepted(resp'[r])
                /\ resp'[r].status = loc[r].status
                /\ resp'[r].status \in {"Present", "Absent"}
                /\ resp'[r].reason = loc[r].reason
                /\ resp'[r].reason # "null"
                /\ Len(dbAttendance') = Len(dbAttendance) + 1
                /\ dbAttendance'[Len(dbAttendance')].student_id = loc[r].student_id
                /\ dbAttendance'[Len(dbAttendance')].status = loc[r].status
                /\ xlsRows' = xlsRows]_vars

\* a submission whose Excel save failed was answered with a success and its
\* record is the last one of db.json
C9_Witness ==
  \E r \in Handlers :
    /\ pc[r] = "done"
    /\ loc[r].excelError
    /\ Accepted(resp[r])
    /\ dbAttendance # << >>
    /\ dbAttendance[Len(dbAttendance)].student_id = loc[r].student_id
    /\ dbAttendance[Len(dbAttendance)].status = resp[r].status

C11_DbFailureIsServerError ==
  [][\A r \in Handlers :
       /\ ( pc[r] = "saveJson" /\ pc'[r] = "done" /\ loc'[r].dbError )
          => /\ resp'[r].code = 500
             /\ resp'[r].success = FALSE
             /\ "status" \notin DOMAIN resp'[r]
             /\ dbAttendance' = dbAttendance
       /\ ( pc[r] = "saveJson" /\ pc'[r] = "done" /\ resp'[r].code = 200 )
          => /\ ~loc'[r].dbError
             /\ dbFile' = "ok"
             /\ dbAttendance' # << >>
             /\ dbAttendance'[Len(dbAttendance')].student_id = loc[r].student_id]_vars

\* the save to db.json failed for one submission whose Excel save had
\* succeeded and for one whose Excel save had failed
C11_Witness ==
  \E r, q \in Handlers :
    /\ pc[r] = "done" /\ loc[r].dbError /\ loc[r].excelError /\ resp[r].code = 500
    /\ pc[q] = "done" /\ loc[q].dbError /\ ~loc[q].excelError /\ resp[q].code = 500
    /\ xlsRows # << >>

\* C12: a submission whose id or name is missing or empty, or for which no
\* address can be extracted, is answered 400 at once, with db.json and
\* attendance.xlsx neither loaded, created nor written; every other
\* submission goes on with a non-empty id, name and address
C12_RejectedBeforeStorage ==
  [][\A r \in Handlers :
       Began(r)
       => \/ /\ pc'[r] = "done"
             /\ resp'[r].code = 400
             /\ resp'[r].success = FALSE
             /\ loc'[r] = NoLoc
             /\ wb'[r] = << >>
             /\ UNCHANGED <<dbVars, xlsVars>>
          \/ /\ resp'[r].code # 400
             /\ loc'[r].student_id # Empty
             /\ loc'[r].student_name # Empty
             /\ loc'[r].clientIp # Empty]_vars

\* two submissions were rejected, the second because no address could be
\* extracted, and neither file exists yet
C12_Witness ==
  /\ nSub[1] = 2
  /\ pc[1] = "done"
  /\ resp[1].code = 400
  /\ resp[1].message = "Could not determine your IP address."
  /\ dbFile = "missing"
  /\ xlsFile = "missing"

\* the request for the report is answered in this step
Reported == report = NoReport /\ report' # NoReport

\* one tuple for each record of db.json, in the order of the file, with date
\* and time taken from the record's timestamp
DbTuples ==
  [i \in 1..Len(dbAttendance) |->
     [id |-> dbAttendance[i].student_id, name |-> dbAttendance[i].student_name,
      date |-> DateOf(dbAttendance[i].timestamp),
      time |-> TimeOf(dbAttendance[i].timestamp),
      ip |-> dbAttendance[i].clientIp, status |-> dbAttendance[i].status]]

\* C13: when attendance.xlsx, written by the last submission, has since been
\* deleted or damaged, the report is one tuple for every record of db.json,
\* in append order, with date and time derived from the stored timestamp
C13_FallbackReportsEveryRecord ==
  [][( /\ Reported
       /\ report'.code = 200
       /\ xlsFile \in {"missing", "corrupt"}
       /\ pc[1] = "done" /\ Accepted(resp[1]) /\ ~loc[1].excelError )
     => report'.records = DbTuples]_vars

\* the tuple of the report at position j is one of the record rec of db.json
TupleOf(records, j, rec) ==
  /\ records[j].id = rec.student_id
  /\ records[j].name = rec.student_name
  /\ records[j].ip = rec.clientIp
  /\ records[j].status = rec.status

\* C14: when no submission is under way, the report has a tuple with the
\* same id, name, address and status for every record that an accepted
\* submission appended to db.json, also for those whose Excel save failed:
\* no fewer tuples of a kind than db.json has records of that kind
C14_ReportHasEveryRecord ==
  [][( Reported /\ report'.code = 200 /\ pc[1] \in {"idle", "done"} )
     => \A i \in DOMAIN dbAttendance :
          Cardinality({j \in DOMAIN report'.records :
                         TupleOf(report'.records, j, dbAttendance[i])})
          >= Cardinality({k \in DOMAIN dbAttendance :
                            /\ dbAttendance[k].student_id = dbAttendance[i].student_id
                            /\ dbAttendance[k].student_name = dbAttendance[i].student_name
                            /\ dbAttendance[k].clientIp = dbAttendance[i].clientIp
                            /\ dbAttendance[k].status = dbAttendance[i].status})]_vars

\* writeFile of handler r succeeds in this step
Wrote(r) == pc[r] = "writeFile" /\ pc'[r] = "saveJson" /\ ~loc'[r].excelError

\* C15: a successful write of attendance.xlsx keeps every row the file had,
\* unchanged and in order, and adds one data row at the end, also when the
\* readFile before it failed
C15_WriteAppendsOneRow ==
  [][\A r \in Handlers :
       ( Wrote(r) /\ xlsFile = "ok" )
       => /\ Len(xlsRows') = Len(xlsRows) + 1
          /\ SubSeq(xlsRows', 1, Len(xlsRows)) = xlsRows
          /\ xlsRows'[Len(xlsRows')][1] = loc[r].student_id]_vars

\* handler r has read attendance.xlsx and not yet written it back
InCycle(r) == pc[r] = "writeFile"

\* C16: the read-modify-write cycles on attendance.xlsx of concurrent
\* submissions never overlap, and once all of them have been answered with
\* a success and no failed Excel save, the sheet has one data row for each
C16_TabularWritesSerialized ==
  /\ \A r, q \in Handlers : (InCycle(r) /\ InCycle(q)) => r = q
  /\ ( \A r \in Handlers :
         pc[r] = "done" /\ Accepted(resp[r]) /\ ~loc[r].excelError )
     => Len(xlsRows) = NumHandlers + 1

\* C17: what the report reads from the sheet is what was written: for every
\* data row of attendance.xlsx whose id and name are not both blank, the
\* report has a tuple whose id, name, date, time, address and status are
\* exactly the six cells of the row
C17_RoundTripExact ==
  [][( /\ Reported
       /\ report'.code = 200
       /\ ~report'.usedDb
       /\ xlsFile = "ok" )
     => \A i \in 2..Len(xlsRows) :
          ( Trim(xlsRows[i][1]) # Empty \/ Trim(xlsRows[i][2]) # Empty )
          => \E j \in DOMAIN report'.records :
            /\ report'.records[j].id = xlsRows[i][1]
            /\ report'.records[j].name = xlsRows[i][2]
            /\ report'.records[j].date = xlsRows[i][3]
            /\ report'.records[j].time = xlsRows[i][4]
            /\ report'.records[j].ip = xlsRows[i][5]
            /\ report'.records[j].status = xlsRows[i][6]]_vars

\* C18: a submission that finds attendance.xlsx absent, or without the
\* Attendance sheet, makes a sheet of the six-column header row and its one
\* data row, and a successful write stores the sheet the handler made; a
\* sheet that exists starts with the header row; and the report of a sheet
\* of a header and k data rows has k tuples, the header not among them and
\* no data row left out
C18_HeaderThenEveryRow ==
  [][/\ \A r \in Handlers :
          /\ ( pc[r] = "readFile" /\ pc'[r] = "writeFile"
               /\ xlsFile \in {"missing", "nosheet"} )
             => /\ Len(wb'[r]) = 2
                /\ wb'[r][1] = HeaderRow
                /\ wb'[r][2][1] = loc[r].student_id
          /\ Wrote(r) => xlsRows' = wb[r]
     /\ xlsFile' = "ok" => xlsRows'[1] = HeaderRow
     /\ ( Reported /\ report'.code = 200 /\ ~report'.usedDb /\ xlsFile = "ok" )
        => /\ Len(report'.records) = Len(xlsRows) - 1
           /\ \A j \in DOMAIN report'.records :
                report'.records[j].status \in {"Present", "Absent"}]_vars

\* C19: the records of db.json are never changed or deleted: after every
\* step, also one in which loading db.json failed, the records that were in
\* the file are still there, unchanged, in front of any new one
C19_RecordsNeverDeleted ==
  [][/\ Len(dbAttendance') >= Len(dbAttendance)
     /\ SubSeq(dbAttendance', 1, Len(dbAttendance)) = dbAttendance]_vars

\* C20: while db.json is missing or cannot be read or parsed, loadDb yields
\* the empty structure and no operation fails for it: getExpectedIp is null,
\* the records of an identity and of the report's fallback are the empty
\* list, a submission is decided against the process default and is not
\* suppressed, and a save that can write leaves the new record, or the new
\* registry entry, in a file that can be read again
C20_LoadFailureYieldsEmpty ==
  [][dbFile # "ok"
     => /\ loadDb = [users |-> NoUsers, attendance |-> << >>]
        /\ getExpectedIp(U001) = Null
        /\ getAttendanceForStudent(U001) = << >>
        /\ getAllAttendance = << >>
        /\ \A r \in Handlers :
             /\ ( Began(r) /\ loc'[r].clientIp # Empty )
                => /\ pc'[r] = "readFile"
                   /\ resp'[r] = NoResp
                   /\ loc'[r].allowedIp = ALLOWED_IP
             /\ ( pc[r] = "saveJson" /\ pc'[r] = "done" /\ ~loc'[r].dbError )
                => /\ Accepted(resp'[r])
                   /\ dbFile' = "ok"
                   /\ Len(dbAttendance') = 1
                   /\ dbAttendance'[1].student_id = loc[r].student_id
                   /\ dbUsers' = NoUsers
        /\ ( /\ pc' = pc /\ dbFile' = "ok" /\ ~Reported
             /\ (dbFile = "missing" \/ <<dbUsers, dbAttendance>>' # <<dbUsers, dbAttendance>>) )
           => /\ DOMAIN dbUsers' = {U001}
              /\ dbAttendance' = << >>
        /\ ( Reported /\ report'.code = 200 /\ report'.usedDb )
           => report'.records = << >>]_vars

\* a submission that computes Present was not suppressed and goes on to the
\* files, although db.json, which cannot be read, holds a Present record of
\* the identity dated today
C20_Witness ==
  /\ dbFile = "unreadable"
  /\ pc[1] = "readFile"
  /\ loc[1].status = "Present"
  /\ PresentRecords(loc[1].student_id, DateOf(now)) # {}

\* positions in the Attendance sheet of the Present rows of an identity dated day
SheetPresent(id, day) ==
  {i \in 2..Len(xlsRows) :
     /\ xlsRows[i][1] = id
     /\ xlsRows[i][3] = day
     /\ xlsRows[i][6] = "Present"}

InFlight(r) == pc[r] \in {"readFile", "writeFile", "saveJson"}

\* C22: a submission that is not suppressed first finishes its attempt on
\* attendance.xlsx, with any outcome, then goes on to db.json whether or not
\* that attempt succeeded, and is answered only in the step that completes
\* the append to db.json
C22_ExcelThenDbThenResponse ==
  [][\A r \in Handlers :
       /\ InFlight(r)' => resp'[r] = NoResp
       /\ ( Began(r) /\ pc'[r] # "done" )
          => ( pc'[r] = "readFile" /\ dbAttendance' = dbAttendance )
       /\ ( pc[r] = "readFile" /\ pc'[r] # pc[r] )
          => ( pc'[r] = "writeFile" /\ dbAttendance' = dbAttendance )
       /\ ( pc[r] = "writeFile" /\ pc'[r] # pc[r] )
          => ( pc'[r] = "saveJson" /\ dbAttendance' = dbAttendance )
       /\ ( pc[r] = "saveJson" /\ pc'[r] # pc[r] )
          => /\ pc'[r] = "done"
             /\ resp'[r] # NoResp
             /\ Accepted(resp'[r])
                => /\ Len(dbAttendance') = Len(loadDb.attendance) + 1
                   /\ dbAttendance'[Len(dbAttendance')].student_id = loc[r].student_id
                   /\ dbAttendance'[Len(dbAttendance')].status = loc[r].status]_vars

\* the Excel save of a submission has failed and the handler is about to add
\* the record to db.json, the request not yet answered
C22_Witness ==
  \E r \in Handlers :
    /\ pc[r] = "saveJson"
    /\ loc[r].excelError
    /\ resp[r] = NoResp

\* handlers whose submission was answered with a success that is not a
\* suppressed duplicate
Answered == {r \in Handlers : pc[r] = "done" /\ Accepted(resp[r])}

\* C23: no update of db.json is lost under concurrent submissions and
\* registry updates: every submission answered with a success has its record
\* in db.json, one record each, the registry update answered last is in the
\* registry, an append leaves the registry as it is and a registry update
\* leaves the records as they are
C23_NoLostUpdate ==
  /\ Len(dbAttendance) = Cardinality(Answered)
  /\ \A r \in Answered :
       \E i \in DOMAIN dbAttendance :
         /\ dbAttendance[i].student_id = loc[r].student_id
         /\ dbAttendance[i].status = loc[r].status
         /\ dbAttendance[i].clientIp = loc[r].clientIp
  /\ lastSet.code = 200
     => /\ lastSet.student_id \in DOMAIN dbUsers
        /\ dbUsers[lastSet.student_id].expectedIp = lastSet.expected_ip

\* two concurrent submissions and a registry update have all been answered
\* with a success
C23_Witness ==
  /\ Answered = Handlers
  /\ NumHandlers > 1
  /\ lastSet.code = 200

\* C24: a successful registry update makes the address it carries the entry
\* of its identity, replacing the entry that was there, and leaves the entry
\* of every other identity as it is; no other step changes an entry
C24_LastWriteWins ==
  [][\A id \in LastWriteIds :
       getExpectedIp(id)' = IF lastSet' # lastSet /\ lastSet'.student_id = id
                              THEN lastSet'.expected_ip
                              ELSE getExpectedIp(id)]_vars

\* the entry of U001 has been overwritten, a record made under its first
\* address being in db.json, while U002 keeps the entry it was given
C24_Witness ==
  /\ lastSet.code = 200
  /\ getExpectedIp(U001) = IpHome
  /\ getExpectedIp(U002) = IpOffice
  /\ \E i \in DOMAIN dbAttendance :
       /\ dbAttendance[i].student_id = U001
       /\ dbAttendance[i].allowedIp = IpOffice

\* C25: a submission is answered alreadyMarked only if it computed Present and
\* db.json holds a Present record of the same identity whose timestamp has the
\* current UTC date; Present records of other identities or of earlier dates
\* do not count
C25_SuppressedOnlyBySameDay ==
  [][\A r \in Handlers :
       ( Began(r) /\ AlreadyMarked(resp'[r]) )
       => /\ loc'[r].status = "Present"
          /\ \E i \in DOMAIN dbAttendance :
               /\ dbAttendance[i].student_id = loc'[r].student_id
               /\ dbAttendance[i].status = "Present"
               /\ DateOf(dbAttendance[i].timestamp) = DateOf(now)]_vars

\* a submission that computes Present was not suppressed although db.json
\* holds a Present record of the same identity: that record is of an earlier date
C25_Witness ==
  /\ pc[1] = "readFile"
  /\ loc[1].status = "Present"
  /\ \E i \in DOMAIN dbAttendance :
       /\ dbAttendance[i].student_id = loc[1].student_id
       /\ dbAttendance[i].status = "Present"
       /\ DateOf(dbAttendance[i].timestamp) < loc[1].today

\* the data rows of the Attendance sheet
DataRows == IF xlsRows = << >> THEN << >> ELSE Tail(xlsRows)

\* C26: when submissions run one at a time and no read or write of a file
\* fails, then between submissions the data rows of attendance.xlsx and the
\* records of db.json correspond one to one in the same order and agree on
\* id, name, address and status
C26_StoresCorrespond ==
  pc[1] \in {"idle", "done"}
  => /\ Len(DataRows) = Len(dbAttendance)
     /\ \A i \in DOMAIN dbAttendance :
          /\ DataRows[i][1] = dbAttendance[i].student_id
          /\ DataRows[i][2] = dbAttendance[i].student_name
          /\ DataRows[i][5] = dbAttendance[i].clientIp
          /\ DataRows[i][6] = dbAttendance[i].status

\* two submissions that differ in identity or status have completed and are
\* in both stores
C26_Witness ==
  /\ pc[1] = "done"
  /\ Len(dbAttendance) = 2
  /\ Len(DataRows) = 2
  /\ <<dbAttendance[1].student_id, dbAttendance[1].status>>
       # <<dbAttendance[2].student_id, dbAttendance[2].status>>

\* C27: an accepted submission has one timestamp: the date in its row of
\* attendance.xlsx is the UTC date of the timestamp of its record in db.json,
\* and both are the date its duplicate check took as today
C27_SingleTimestamp ==
  [][\A r \in Handlers :
       ( pc[r] = "saveJson" /\ pc'[r] = "done" /\ Accepted(resp'[r]) )
       => LET record == dbAttendance'[Len(dbAttendance')]
              row == xlsRows[Len(xlsRows)]
          IN /\ row[3] = DateOf(record.timestamp)
             /\ DateOf(record.timestamp) = loc[r].today]_vars

\* the value extractClientIp starts from: the forwarding header, or the peer
\* address when the header is absent
RawAddress == IF myIp.xff # Empty THEN myIp.xff ELSE myIp.peer

\* the first comma-separated entry of a raw value, blanks around it removed,
\* then a leading '::ffff:' removed, then '::1' replaced by '127.0.0.1'
NormalizedReference(raw) ==
  LET first == Trim(SplitFirst(raw))
      unmapped == IF StartsWith(first, Ipv6Prefix)
                    THEN SubSeq(first, Len(Ipv6Prefix) + 1, Len(first))
                    ELSE first
  IN IF unmapped = Ipv6Loopback THEN Ipv4Loopback ELSE unmapped

\* C28: the address GET /api/my-ip reports is the reference normalisation of
\* the raw value, for a chain as for a single entry, '(unknown)' standing
\* for the empty result
C28_NormalizedIsReference ==
  myIp.code = 200
  => myIp.clientIp = IF NormalizedReference(RawAddress) = Empty THEN Unknown
                     ELSE NormalizedReference(RawAddress)

\* a chain whose first entry has a blank after it and the mapping prefix in
\* front was reduced to the IPv4 address
C28_Witness ==
  /\ myIp.code = 200
  /\ myIp.xff = IpMappedHome \o <<" ", ",">> \o IpOffice
  /\ myIp.clientIp = IpHome

\* the parts of s between its dots
RECURSIVE SplitDots(_)
SplitDots(s) ==
  IF Includes(s, ".")
    THEN LET i == CHOOSE k \in 1..Len(s) : s[k] = "." /\ \A j \in 1..(k - 1) : s[j] # "."
         IN <<SubSeq(s, 1, i - 1)>> \o SplitDots(SubSeq(s, i + 1, Len(s)))
    ELSE <<s>>

IsDigits(s) == s # Empty /\ \A i \in 1..Len(s) : \E d \in 1..10 : Digits[d] = s[i]

\* the number written by a sequence of decimal digits
RECURSIVE ToNumber(_)
ToNumber(s) ==
  IF s = Empty THEN 0
  ELSE 10 * ToNumber(SubSeq(s, 1, Len(s) - 1))
       + (CHOOSE d \in 0..9 : Digits[d + 1] = s[Len(s)])

\* ip is a dotted-decimal IPv4 address in normal form: four octets of 0..255
\* written without leading zeros
IsDottedDecimal(ip) ==
  LET parts == SplitDots(ip)
  IN /\ Len(parts) = 4
     /\ \A i \in 1..4 : /\ IsDigits(parts[i])
                        /\ ToNumber(parts[i]) <= 255
                        /\ ToDigits(ToNumber(parts[i])) = parts[i]

Octets(ip) == [i \in 1..4 |-> ToNumber(SplitDots(ip)[i])]

\* 127.0.0.1, 10.0.0.0/8, 172.16.0.0/12 and 192.168.0.0/16, on the octets
PrivateReference(o) ==
  \/ o = <<127, 0, 0, 1>>
  \/ o[1] = 10
  \/ o[1] = 172 /\ o[2] >= 16 /\ o[2] <= 31
  \/ o[1] = 192 /\ o[2] = 168

\* C29: for a dotted-decimal IPv4 address isPrivateIp tells whether the
\* address is 127.0.0.1 or lies in 10.0.0.0/8, 172.16.0.0/12 or
\* 192.168.0.0/16; it is true for 'localhost' and false for the empty address
C29_PrivateIsReference ==
  /\ isPrivateIp(Empty) = FALSE
  /\ myIp.code = 200
     => /\ IsDottedDecimal(myIp.clientIp)
           => ( myIp.isPrivate <=> PrivateReference(Octets(myIp.clientIp)) )
        /\ myIp.clientIp = Localhost => myIp.isPrivate

\* an address just outside 172.16.0.0/12 whose text starts like one inside
\* it was classified public
C29_Witness ==
  /\ myIp.code = 200
  /\ myIp.clientIp = Dotted(172, 160, 0, 1)
  /\ ~myIp.isPrivate

\* raw.split(',').length
Entries(xff) == Cardinality({i \in 1..Len(xff) : xff[i] = ","}) + 1

\* C30: the proxy hint is true when the forwarding header has more than one
\* comma-separated entry and false when the header is absent or has one
\* entry, whichever source gave the address
C30_ProxiedIffChain ==
  myIp.code = 200
  => myIp.possibleProxy = IF myIp.xff # Empty /\ Entries(myIp.xff) > 1 THEN "true"
                          ELSE "false"

\* the request on record carried a token that is not the admin token of the
\* process, or the process has none
Unauthorized(request) == ADMIN_TOKEN = Empty \/ request.token # ADMIN_TOKEN

\* C31: a registry update or a report request whose token is not the admin
\* token, and any such request when the process has no admin token, is
\* answered 401: db.json, attendance.xlsx and the registry stay as they are
\* and the answer carries no records
C31_UnauthorizedChangesNothing ==
  [][( pc' = pc /\ Unauthorized(adminReq') )
     => /\ adminReq'.code = 401
        /\ UNCHANGED <<dbFile, dbUsers, dbAttendance, xlsFile, xlsRows, lastSet>>
        /\ adminReq'.endpoint = "records" => report' = [code |-> 401]]_vars

\* a report was asked for without a token from a process that has no admin
\* token, while db.json holds a record: the answer was 401
C31_Witness ==
  /\ ADMIN_TOKEN = Empty
  /\ adminReq.code = 401
  /\ adminReq.endpoint = "records"
  /\ adminReq.token = Empty
  /\ report = [code |-> 401]
  /\ Len(dbAttendance) > 0

\* the four kinds of response of POST /api/attendance/mark
ResponseKind(response) ==
  \/ response.code = 400
  \/ response.code = 500
  \/ response.code = 200 /\ AlreadyMarked(response)
  \/ response.code = 200 /\ ~AlreadyMarked(response)
     /\ response.status \in {"Present", "Absent"}

\* C32: a submission gets exactly one response, a client error, a server
\* error, alreadyMarked or a success with a status: the response is sent in
\* the step that ends the handler, is not replaced afterwards, and under any
\* failure of attendance.xlsx and db.json a handler that waits for a file
\* operation goes on to its response
C32_ExactlyOneResponse ==
  /\ [][\A r \in Handlers :
          /\ ( pc'[r] = "done" ) <=> ( resp'[r] # NoResp )
          /\ resp'[r] # NoResp => ResponseKind(resp'[r])
          /\ ( resp[r] # NoResp /\ ~Began(r) ) => resp'[r] = resp[r]]_vars
  /\ InFlight(1) ~> ( pc[1] = "done" /\ resp[1] # NoResp )

\* a submission whose Excel save and db.json save both failed has been
\* answered, with a server error
C32_Witness ==
  /\ pc[1] = "done"
  /\ loc[1].excelError
  /\ loc[1].dbError
  /\ resp[1].code = 500

\* C33: the address cannot be determined only when no source carries one:
\* when the forwarding header or the peer address of the request is not
\* empty, extractClientIp gives a non-empty address
C33_UnresolvableOnlyWithoutSource ==
  ( myIp.code = 200 /\ (myIp.xff # Empty \/ myIp.peer # Empty) )
  => myIp.clientIp # Unknown

\* handler r sends an error response in this step
ErrorStep(r) == pc[r] # "done" /\ pc'[r] = "done" /\ resp'[r].code \in {400, 500}

\* C34: a submission answered with an error leaves nothing in db.json nor in
\* attendance.xlsx: in particular, when the save to db.json fails and the
\* answer is 500, the sheet is not the one to which the handler added the
\* row of the submission
C34_ErrorLeavesNoTrace ==
  [][\A r \in Handlers :
       ErrorStep(r)
       => /\ dbAttendance' = dbAttendance
          /\ IF pc[r] = "saveJson" THEN xlsRows' # wb[r]
             ELSE xlsRows' = xlsRows]_vars

\* C35: with submissions one after the other, also when saves to db.json
\* fail and the caller tries again, attendance.xlsx has at most one Present
\* row for an identity and a date
C35_OnePresentRowPerDay ==
  \A id \in Identities, day \in Days : Cardinality(SheetPresent(id, day)) <= 1

\* C36: a change of db.json touches its own collection only: adding a record
\* leaves the registry as it is and a registry update leaves the records as
\* they are, also when the load before the save fails
C36_MutationKeepsOtherCollection ==
  [][/\ \A r \in Handlers :
          ( pc[r] = "saveJson" /\ pc'[r] = "done" /\ Accepted(resp'[r]) )
          => dbUsers' = dbUsers
     /\ ( pc' = pc /\ ~Reported /\ dbUsers' # dbUsers )
        => dbAttendance' = dbAttendance]_vars

\* C37: a submission with a forwarding header has the same outcome whatever
\* its peer address: the step a handler takes for a request with a non-empty
\* header from one peer address is the step it takes, from the same state,
\* for the same request from any other peer address, so that the observed
\* address, isPrivate, the proxy hint, status, reason and the response agree
C37_PeerIgnoredWithHeader ==
  [][\A r \in Handlers :
       Began(r)
       => \A student_id \in DecisionStudentIds, student_name \in DecisionStudentNames,
             xff \in DecisionForwardedHeaders \ {Empty},
             peer \in DecisionPeerAddresses, other \in DecisionPeerAddresses :
            MarkBegin(r, student_id, student_name, xff, peer)
            => MarkBegin(r, student_id, student_name, xff, other)]_vars

\* a submission was decided Present on the address of its forwarding header,
\* an address that no peer address of the specification normalises to
C37_Witness ==
  /\ pc[1] = "readFile"
  /\ loc[1].proxy = "false"
  /\ loc[1].clientIp = IpOffice
  /\ loc[1].status = "Present"
  /\ \A peer \in DecisionPeerAddresses : extractClientIp(Empty, peer, peer) # IpOffice

====
